---- MODULE Spec2Model ----
(***************************************************************************)
(* glance.store backend core (glance/store/backend.py): the scheme         *)
(* registry filled by create_stores, the dispatcher functions that route   *)
(* a URI to a store, the location-metadata validator, and the Indexable    *)
(* streaming wrapper.                                                      *)
(*                                                                         *)
(* Text is modelled as a sequence of one-character strings, so that        *)
(* str.find and slicing are computed.  A raised exception is the name of   *)
(* its class; "none" means the call returned.                              *)
(***************************************************************************)
EXTENDS Integers, Sequences, FiniteSets, TLC

VARIABLES
    conf,               \* conf.glance_store: [stores, default_store]
    drivers,            \* the installed store drivers: entry -> [inst, schemes]
    phase,              \* "init" | "ready" (create_stores returned) | "fatal"
    SCHEME_TO_CLS_MAP,  \* location.SCHEME_TO_CLS_MAP: scheme -> [store, location_class]
    store_count,        \* the value create_stores returned
    load_order,         \* the order in which set(conf.stores) was iterated
    stored,             \* URIs of the objects the backends hold
    last,               \* the dispatcher call that just finished
    meta_call,          \* the validator / store_add_to_backend call that just finished
    wrapped,            \* Indexable.wrapped: the chunks the source has yet to yield
    size,               \* Indexable.size
    cursor,             \* Indexable.cursor
    chunk,              \* Indexable.chunk: [none, data]
    produced,           \* history: the chunks the source has yielded so far
    iterated,           \* history: __iter__ has yielded a chunk
    forward,            \* history: the index requests so far never went backward
    idx_call            \* the Indexable call that just finished

regVars == <<conf, drivers, phase, SCHEME_TO_CLS_MAP, store_count, load_order, stored, last>>
metaVars == <<meta_call>>
idxVars == <<wrapped, size, cursor, chunk, produced, iterated, forward, idx_call>>
vars == <<regVars, metaVars, idxVars>>

-----------------------------------------------------------------------------
(* Bounds *)

\* longest backend-specific remainder of a URI
MaxRem == 1
\* most nodes (containers and leaves) in a metadata value
MaxNodes == 3
\* most chunks a wrapped source yields
MaxChunks == 3
\* longest chunk
MaxChunkLen == 2
\* largest start offset an index request names
MaxOffset == 5

-----------------------------------------------------------------------------
(* Python text primitives *)

Min(a, b) == IF a < b THEN a ELSE b
Max(a, b) == IF a > b THEN a ELSE b

\* str.find(ch): the lowest 0-based index of ch, or -1
find(s, ch) ==
    IF \E i \in 1..Len(s) : s[i] = ch
    THEN (CHOOSE i \in 1..Len(s) : s[i] = ch /\ \A j \in 1..(i - 1) : s[j] # ch) - 1
    ELSE -1

\* a slice bound as Python clamps it: negative bounds count from the end
PyBound(i, n) == IF i < 0 THEN Max(n + i, 0) ELSE Min(i, n)

\* s[lo:hi]
PySlice(s, lo, hi) ==
    LET a == PyBound(lo, Len(s))
        b == PyBound(hi, Len(s))
    IN IF a >= b THEN <<>> ELSE SubSeq(s, a + 1, b)

\* s[lo:]
PySliceFrom(s, lo) == PySlice(s, lo, Len(s))

-----------------------------------------------------------------------------
(* Schemes, URIs, drivers *)

file == <<"f", "i", "l", "e">>
http == <<"h", "t", "t", "p">>
mem == <<"m", "e", "m">>
Schemes == {file, http, mem}

StoreEntries == {"file", "http", "mem"}
InstOutcomes == {"ok", "RuntimeError", "BadStoreConfiguration"}

RemChars == {"/", "x"}
RECURSIVE SeqsUpTo(_, _)
SeqsUpTo(S, n) ==
    IF n = 0 THEN {<<>>}
    ELSE LET shorter == SeqsUpTo(S, n - 1)
         IN shorter \cup {Append(s, c) : s \in shorter, c \in S}
Remainders == SeqsUpTo(RemChars, MaxRem)

\* every text of the form <scheme>:<remainder>
URIs == {s \o <<":">> \o r : s \in Schemes, r \in Remainders}

ImageIds == {<<"x">>}

NoStore == "<no store>"
NoScheme == <<"<None>">>

-----------------------------------------------------------------------------
(* Metadata values: [t, keys, items].  t is the Python type; a dict lists   *)
(* its keys in iteration order with the values at the same positions in     *)
(* items; a list has its elements in items; a leaf has neither.             *)

LeafTypes == {"unicode", "int", "str", "NoneType"}
MetaKeys == {"k", "j"}

Leaf(t) == [t |-> t, keys |-> <<>>, items |-> <<>>]
List(items) == [t |-> "list", keys |-> <<>>, items |-> items]
Dict(keys, items) == [t |-> "dict", keys |-> keys, items |-> items]
PyNone == Leaf("NoneType")

\* the key orders a dict of n entries can be iterated in
KeySeqs(n) == {ks \in [1..n -> MetaKeys] : \A i, j \in 1..n : i # j => ks[i] # ks[j]}

\* MetaBySize[n].vals: the values of exactly n nodes;
\* MetaBySize[n].forests: the sequences of values of n nodes in all
MetaBySize[n \in Nat] ==
    IF n = 0 THEN [vals |-> {}, forests |-> {<<>>}]
    ELSE LET kids == MetaBySize[n - 1].forests
             vals ==
                 (IF n = 1 THEN {Leaf(t) : t \in LeafTypes} ELSE {})
                 \cup {List(f) : f \in kids}
                 \cup UNION {{Dict(ks, f) : ks \in KeySeqs(Len(f))} : f \in kids}
             forests ==
                 {<<v>> : v \in vals}
                 \cup UNION {{<<v>> \o f : v \in MetaBySize[i].vals,
                                           f \in MetaBySize[n - i].forests} : i \in 1..(n - 1)}
         IN [vals |-> vals, forests |-> forests]

MetaVals == UNION {MetaBySize[n].vals : n \in 1..MaxNodes}

-----------------------------------------------------------------------------
(* Exceptions and call results *)

\* isinstance(exc, cls) for the classes of glance.store.exceptions: the
\* kinds of the error taxonomy are separate classes, none derived from another
IsInstance(exc, cls) == exc = cls

\* what a store method did when called: raised, or returned value
Drv(raised, value) == [raised |-> raised, value |-> value]

\* what a dispatcher function did: the exception it raised ("none": it
\* returned ret), the store it resolved, whether it called the store's
\* method, and the log events it emitted
Result(raised, store, called, ret, log) ==
    [raised |-> raised, store |-> store, called |-> called, ret |-> ret, log |-> log]

-----------------------------------------------------------------------------
(* The registry: location.SCHEME_TO_CLS_MAP and create_stores *)

EmptyMap == [s \in {} |-> [store |-> NoStore, location_class |-> NoStore]]

\* location.register_scheme_map: merge, the later entry for a scheme wins
register_scheme_map(map, scheme_map) ==
    [s \in (DOMAIN map) \cup (DOMAIN scheme_map) |->
        IF s \in DOMAIN scheme_map THEN scheme_map[s] ELSE map[s]]

\* location.get_location_from_uri: the scheme is the text before the first
\* colon; a scheme with no registration is UnknownScheme
get_location_from_uri(map, uri) ==
    LET colon == find(uri, ":")
        scheme == IF colon < 0 THEN <<>> ELSE PySlice(uri, 0, colon)
    IN IF scheme \notin DOMAIN map
       THEN [raised |-> "UnknownScheme", store_name |-> <<>>, uri |-> uri]
       ELSE [raised |-> "none", store_name |-> scheme, uri |-> uri]

\* _load_store without its except clause: RuntimeError reaches the caller
_load_store_Propagate(drv, store_entry) ==
    IF drv[store_entry].inst = "ok"
    THEN [raised |-> "none", instance |-> store_entry]
    ELSE [raised |-> drv[store_entry].inst, instance |-> NoStore]

\* _load_store: RuntimeError is caught and logged, and None returned
_load_store(drv, store_entry) ==
    IF drv[store_entry].inst = "ok"
    THEN [raised |-> "none", instance |-> store_entry]
    ELSE IF drv[store_entry].inst = "RuntimeError"
    THEN [raised |-> "none", instance |-> NoStore]
    ELSE [raised |-> drv[store_entry].inst, instance |-> NoStore]

\* one driver's scheme_map, built by the inner loop of create_stores
scheme_map_of(store_instance, schemes) ==
    [s \in schemes |-> [store |-> store_instance, location_class |-> store_instance]]

\* create_stores over the entries of _load_stores in iteration order `order`,
\* starting from registry `map` and `count` stores registered
RECURSIVE create_stores(_, _, _, _)
create_stores(order, drv, map, count) ==
    IF order = <<>>
    THEN [raised |-> "none", map |-> map, store_count |-> count]
    ELSE LET store_entry == Head(order)
             loaded == _load_store(drv, store_entry)
         IN IF loaded.raised = "BadStoreConfiguration" \/
               (loaded.raised = "none" /\ loaded.instance = NoStore)
            THEN create_stores(Tail(order), drv, map, count)
            ELSE IF loaded.raised # "none"
            THEN [raised |-> loaded.raised, map |-> map, store_count |-> count]
            ELSE LET schemes == drv[store_entry].schemes
                 IN IF schemes = {}
                    \* line 171 names store_cls, which create_stores does not
                    \* define: building the BackendException raises NameError
                    THEN [raised |-> "NameError", map |-> map, store_count |-> count]
                    ELSE create_stores(Tail(order), drv,
                             register_scheme_map(map,
                                 scheme_map_of(loaded.instance, schemes)),
                             count + 1)

get_known_schemes(map) == DOMAIN map

\* get_store_from_scheme with a dict.get in place of the membership test:
\* an unknown scheme yields no store and no exception
get_store_from_scheme_NoRaise(map, scheme) ==
    IF scheme \notin DOMAIN map
    THEN [raised |-> "none", store |-> NoStore]
    ELSE [raised |-> "none", store |-> map[scheme].store]

get_store_from_scheme(map, scheme) ==
    IF scheme \notin DOMAIN map
    THEN [raised |-> "UnknownScheme", store |-> NoStore]
    ELSE [raised |-> "none", store |-> map[scheme].store]

get_store_from_uri(map, uri) ==
    LET scheme == PySlice(uri, 0, find(uri, "/") - 1)
    IN get_store_from_scheme(map, scheme)

get_store_from_location(map, uri) == get_location_from_uri(map, uri)

-----------------------------------------------------------------------------
(* The dispatcher.  drv is what the resolved store's method does when it   *)
(* is called.                                                              *)

\* the common shape of get_from_backend, get_size_from_backend and
\* delete_from_backend: resolve the location, the store, call the method;
\* unsupported is the exception NotImplementedError is turned into ("" for
\* none)
resolve_and_call(map, uri, drv, unsupported) ==
    LET loc == get_location_from_uri(map, uri)
        st == get_store_from_uri(map, uri)
    IN IF loc.raised # "none" THEN Result(loc.raised, NoStore, FALSE, <<>>, <<>>)
       ELSE IF st.raised # "none" THEN Result(st.raised, NoStore, FALSE, <<>>, <<>>)
       ELSE IF drv.raised = "NotImplementedError" /\ unsupported # ""
       THEN Result(unsupported, st.store, TRUE, <<>>, <<>>)
       ELSE IF drv.raised # "none"
       THEN Result(drv.raised, st.store, TRUE, <<>>, <<>>)
       ELSE Result("none", st.store, TRUE, drv.value, <<>>)

\* get_from_backend without its except clause
get_from_backend_NoExcept(map, uri, drv) ==
    resolve_and_call(map, uri, drv, "")

get_from_backend(map, uri, drv) ==
    resolve_and_call(map, uri, drv, "StoreGetNotSupported")

get_size_from_backend(map, uri, drv) ==
    resolve_and_call(map, uri, drv, "")

delete_from_backend(map, uri, drv) ==
    resolve_and_call(map, uri, drv, "StoreDeleteNotSupported")

safe_delete_from_backend(map, uri, image_id, drv) ==
    LET r == delete_from_backend(map, uri, drv)
    IN IF r.raised = "none" THEN r
       ELSE IF IsInstance(r.raised, "NotFound")
       THEN Result("none", r.store, r.called, <<>>, <<"warn">>)
       ELSE IF IsInstance(r.raised, "StoreDeleteNotSupported")
       THEN Result("none", r.store, r.called, <<>>, <<"warn">>)
       ELSE IF IsInstance(r.raised, "UnsupportedBackend")
       THEN Result("none", r.store, r.called, <<>>, <<"error">>)
       ELSE r

\* set_acls without its except clause
set_acls_NoExcept(map, location_uri, drv) ==
    LET loc == get_location_from_uri(map, location_uri)
        st == get_store_from_scheme(map, loc.store_name)
    IN IF loc.raised # "none" THEN Result(loc.raised, NoStore, FALSE, <<>>, <<>>)
       ELSE IF st.raised # "none" THEN Result(st.raised, NoStore, FALSE, <<>>, <<>>)
       ELSE Result(drv.raised, st.store, TRUE, <<>>, <<>>)

set_acls(map, location_uri, drv) ==
    LET loc == get_location_from_uri(map, location_uri)
        scheme == get_store_from_location(map, location_uri)
        st == get_store_from_scheme(map, scheme.store_name)
    IN IF loc.raised # "none" THEN Result(loc.raised, NoStore, FALSE, <<>>, <<>>)
       ELSE IF scheme.raised # "none"
       THEN Result(scheme.raised, NoStore, FALSE, <<>>, <<>>)
       ELSE IF st.raised # "none" THEN Result(st.raised, NoStore, FALSE, <<>>, <<>>)
       ELSE IF drv.raised = "NotImplementedError"
       THEN Result("none", st.store, TRUE, <<>>, <<"debug">>)
       ELSE IF drv.raised # "none"
       THEN Result(drv.raised, st.store, TRUE, <<>>, <<>>)
       ELSE Result("none", st.store, TRUE, <<>>, <<>>)

-----------------------------------------------------------------------------
(* The metadata validator and add *)

\* '[%d]' % ndx
IndexToken(ndx) == "[" \o ToString(ndx) \o "]"

NoError == [raised |-> "none", key |-> <<>>, type |-> ""]

\* check_location_metadata(val, key).  key is the text of the path, as the
\* sequence of the pieces it is made of: a dict key, or '[ndx]'.
RECURSIVE check_location_metadata(_, _)
RECURSIVE check_items(_, _, _)

\* the two for loops, from the item at position i on: the first item that
\* raises ends the loop
check_items(val, i, key) ==
    IF i > Len(val.items) THEN NoError
    ELSE LET r == check_location_metadata(val.items[i],
                      IF val.t = "dict" THEN <<val.keys[i]>>
                      ELSE Append(key, IndexToken(i - 1)))
         IN IF r.raised # "none" THEN r ELSE check_items(val, i + 1, key)

\* check_location_metadata that does not look inside a list
check_location_metadata_ShallowList(val, key) ==
    IF val.t = "dict" THEN check_items(val, 1, key)
    ELSE IF val.t = "list" THEN NoError
    ELSE IF val.t # "unicode"
    THEN [raised |-> "BackendException", key |-> key, type |-> val.t]
    ELSE NoError

check_location_metadata(val, key) ==
    IF val.t = "dict" THEN check_items(val, 1, key)
    ELSE IF val.t = "list" THEN check_items(val, 1, key)
    ELSE IF val.t # "unicode"
    THEN [raised |-> "BackendException", key |-> key, type |-> val.t]
    ELSE NoError

\* store_add_to_backend: drv.value is the (location, size, checksum,
\* metadata) the store's add returned
store_add_to_backend(store, drv) ==
    IF drv.raised # "none" THEN Result(drv.raised, store, TRUE, <<>>, <<>>)
    ELSE LET metadata == drv.value[4]
         IN IF metadata.t # "NoneType" /\ metadata.t # "dict"
            THEN Result("BackendException", store, TRUE, <<>>, <<"error">>)
            ELSE IF metadata.t # "NoneType" /\
                    check_location_metadata(metadata, <<>>).raised # "none"
            THEN Result("BackendException", store, TRUE, <<>>, <<"error">>)
            ELSE Result("none", store, TRUE, drv.value, <<>>)

add_to_backend(cnf, map, scheme, drv) ==
    LET sch == IF scheme = NoScheme THEN cnf.default_store ELSE scheme
        st == get_store_from_scheme(map, sch)
    IN IF st.raised # "none" THEN Result(st.raised, NoStore, FALSE, <<>>, <<>>)
       ELSE LET r == store_add_to_backend(st.store, drv)
            IN IF r.raised = "NotImplementedError"
               THEN Result("StoreAddNotSupported", r.store, r.called, <<>>, r.log)
               ELSE r

-----------------------------------------------------------------------------
(* Indexable.  The source's bytes are their own offsets, 0, 1, 2, ...: a   *)
(* chunk is the run of offsets it covers.                                  *)

NoChunk == [none |-> TRUE, data |-> <<>>]
SomeChunk(data) == [none |-> FALSE, data |-> data]

\* Indexable.__init__: the declared size, else the source's len, else 0
Indexable_init(size_arg, has_len, wrapped_len) ==
    IF size_arg # 0 THEN size_arg ELSE IF has_len THEN wrapped_len ELSE 0

\* the subclass's another(): the source's next chunk, '' once it is exhausted
another(w) ==
    IF w = <<>> THEN [chunk |-> <<>>, wrapped |-> w, yielded |-> <<>>]
    ELSE [chunk |-> Head(w), wrapped |-> Tail(w), yielded |-> <<Head(w)>>]

\* __getitem__ slicing the cached chunk at the absolute offset
getitem_AbsSlice(self, start) ==
    IF start < self.cursor
    THEN [raised |-> IF self.chunk.none THEN "TypeError" ELSE "none",
          ret |-> PySliceFrom(self.chunk.data, start),
          fetched |-> FALSE, yielded |-> <<>>,
          wrapped |-> self.wrapped, cursor |-> self.cursor, chunk |-> self.chunk]
    ELSE LET a == another(self.wrapped)
         IN [raised |-> "none", ret |-> a.chunk,
             fetched |-> TRUE, yielded |-> a.yielded,
             wrapped |-> a.wrapped,
             cursor |-> IF a.chunk # <<>> THEN self.cursor + Len(a.chunk)
                        ELSE self.cursor,
             chunk |-> SomeChunk(a.chunk)]

\* Indexable.__getitem__(start) on the object [wrapped, cursor, chunk]
getitem(self, start) ==
    IF start < self.cursor
    THEN [raised |-> IF self.chunk.none THEN "TypeError" ELSE "none",
          ret |-> PySliceFrom(self.chunk.data, start - self.cursor),
          fetched |-> FALSE, yielded |-> <<>>,
          wrapped |-> self.wrapped, cursor |-> self.cursor, chunk |-> self.chunk]
    ELSE LET a == another(self.wrapped)
         IN [raised |-> "none", ret |-> a.chunk,
             fetched |-> TRUE, yielded |-> a.yielded,
             wrapped |-> a.wrapped,
             cursor |-> IF a.chunk # <<>> THEN self.cursor + Len(a.chunk)
                        ELSE self.cursor,
             chunk |-> SomeChunk(a.chunk)]

\* one step of the generator Indexable.__iter__ returns
iter_next(self) ==
    IF self.wrapped = <<>>
    THEN [raised |-> "StopIteration", ret |-> <<>>,
          fetched |-> FALSE, yielded |-> <<>>,
          wrapped |-> self.wrapped, cursor |-> self.cursor, chunk |-> self.chunk]
    ELSE [raised |-> "none", ret |-> Head(self.wrapped),
          fetched |-> TRUE, yielded |-> <<Head(self.wrapped)>>,
          wrapped |-> Tail(self.wrapped), cursor |-> self.cursor,
          chunk |-> SomeChunk(Head(self.wrapped))]

\* the sources: up to MaxChunks chunks of up to MaxChunkLen bytes each
ChunkLens == UNION {[1..n -> 0..MaxChunkLen] : n \in 0..MaxChunks}
RECURSIVE SumTo(_, _)
SumTo(lens, n) == IF n = 0 THEN 0 ELSE SumTo(lens, n - 1) + lens[n]
ChunksOf(lens) ==
    [i \in 1..Len(lens) |-> [j \in 1..lens[i] |-> SumTo(lens, i - 1) + j - 1]]
RECURSIVE Flatten(_)
Flatten(chunks) == IF chunks = <<>> THEN <<>> ELSE Head(chunks) \o Flatten(Tail(chunks))

-----------------------------------------------------------------------------
(* States and actions *)

NoCall ==
    [op |-> "none", uri |-> <<>>, scheme |-> <<>>, args |-> <<>>, drv |-> "none",
     raised |-> "none", store |-> NoStore, called |-> FALSE, ret |-> <<>>,
     log |-> <<>>]

Call(op, uri, scheme, args, drv, r) ==
    [op |-> op, uri |-> uri, scheme |-> scheme, args |-> args, drv |-> drv.raised,
     raised |-> r.raised, store |-> r.store, called |-> r.called, ret |-> r.ret,
     log |-> r.log]

NoMetaCall ==
    [op |-> "none", val |-> PyNone, drv |-> "none", raised |-> "none",
     key |-> <<>>, type |-> "", ret |-> <<>>, log |-> <<>>]

NoIdxCall ==
    [op |-> "none", start |-> 0, raised |-> "none", ret |-> <<>>, fetched |-> FALSE,
     yielded |-> <<>>, pre_cursor |-> 0, pre_chunk |-> NoChunk]

RegIdle ==
    /\ conf = [stores |-> {}, default_store |-> file]
    /\ drivers = [d \in StoreEntries |-> [inst |-> "ok", schemes |-> {}]]
    /\ phase = "init"
    /\ SCHEME_TO_CLS_MAP = EmptyMap
    /\ store_count = 0
    /\ load_order = <<>>
    /\ stored = {}
    /\ last = NoCall

MetaIdle == meta_call = NoMetaCall

IdxIdle ==
    /\ wrapped = <<>>
    /\ size = 0
    /\ cursor = 0
    /\ chunk = NoChunk
    /\ produced = <<>>
    /\ iterated = FALSE
    /\ forward = [ok |-> TRUE, hi |-> 0]
    /\ idx_call = NoIdxCall

\* the drivers installed for the dispatcher runs
InstalledDrivers ==
    [d \in StoreEntries |->
        IF d = "file" THEN [inst |-> "ok", schemes |-> {file}]
        ELSE IF d = "http" THEN [inst |-> "ok", schemes |-> {http}]
        ELSE [inst |-> "RuntimeError", schemes |-> {mem}]]

Init ==
    /\ \E stores \in {{"file", "http"}, {"file", "mem"}} :
         conf = [stores |-> stores, default_store |-> file]
    /\ drivers = InstalledDrivers
    /\ phase = "init"
    /\ SCHEME_TO_CLS_MAP = EmptyMap
    /\ store_count = 0
    /\ load_order = <<>>
    /\ stored = {}
    /\ last = NoCall
    /\ MetaIdle
    /\ IdxIdle

\* the orders a set can be iterated in
Orders(S) ==
    {o \in [1..Cardinality(S) -> S] : \A i, j \in 1..Cardinality(S) : i # j => o[i] # o[j]}

CreateStores ==
    /\ phase = "init"
    /\ \E order \in Orders(conf.stores) :
         LET r == create_stores(order, drivers, SCHEME_TO_CLS_MAP, 0)
         IN /\ SCHEME_TO_CLS_MAP' = r.map
            /\ store_count' = r.store_count
            /\ load_order' = order
            /\ phase' = IF r.raised = "none" THEN "ready" ELSE "fatal"
            /\ last' = [NoCall EXCEPT !.op = "create_stores", !.raised = r.raised]
    /\ UNCHANGED <<conf, drivers, stored, metaVars, idxVars>>

\* what a store's get, get_size, delete or set_acls may do for uri
StoreOutcomes(uri, value) ==
    (IF uri \in stored THEN {Drv("none", value)} ELSE {Drv("NotFound", <<>>)})
    \cup {Drv("NotImplementedError", <<>>), Drv("BackendFailure", <<>>)}

Lookup ==
    /\ phase = "ready"
    /\ \E scheme \in Schemes :
         LET st == get_store_from_scheme(SCHEME_TO_CLS_MAP, scheme)
         IN last' = Call("lookup", <<>>, scheme, <<>>, Drv("none", <<>>),
                         Result(st.raised, st.store, FALSE, <<>>, <<>>))
    /\ UNCHANGED <<conf, drivers, phase, SCHEME_TO_CLS_MAP, store_count, load_order,
                   stored, metaVars, idxVars>>

Get ==
    /\ phase = "ready"
    /\ \E uri \in URIs \cup stored : \E drv \in StoreOutcomes(uri, <<"chunks">>) :
         last' = Call("get", uri, <<>>, <<>>, drv,
                      get_from_backend(SCHEME_TO_CLS_MAP, uri, drv))
    /\ UNCHANGED <<conf, drivers, phase, SCHEME_TO_CLS_MAP, store_count, load_order,
                   stored, metaVars, idxVars>>

GetSize ==
    /\ phase = "ready"
    /\ \E uri \in URIs \cup stored : \E drv \in StoreOutcomes(uri, <<"size">>) :
         last' = Call("get_size", uri, <<>>, <<>>, drv,
                      get_size_from_backend(SCHEME_TO_CLS_MAP, uri, drv))
    /\ UNCHANGED <<conf, drivers, phase, SCHEME_TO_CLS_MAP, store_count, load_order,
                   stored, metaVars, idxVars>>

Delete ==
    /\ phase = "ready"
    /\ \E uri \in URIs \cup stored : \E drv \in StoreOutcomes(uri, <<>>) :
         LET r == delete_from_backend(SCHEME_TO_CLS_MAP, uri, drv)
         IN /\ last' = Call("delete", uri, <<>>, <<>>, drv, r)
            /\ stored' = IF r.called /\ drv.raised = "none" THEN stored \ {uri}
                         ELSE stored
    /\ UNCHANGED <<conf, drivers, phase, SCHEME_TO_CLS_MAP, store_count, load_order,
                   metaVars, idxVars>>

SafeDelete ==
    /\ phase = "ready"
    /\ \E uri \in URIs \cup stored, image_id \in ImageIds : \E drv \in StoreOutcomes(uri, <<>>) :
         LET r == safe_delete_from_backend(SCHEME_TO_CLS_MAP, uri, image_id, drv)
         IN /\ last' = Call("safe_delete", uri, <<>>, <<>>, drv, r)
            /\ stored' = IF r.called /\ drv.raised = "none" THEN stored \ {uri}
                         ELSE stored
    /\ UNCHANGED <<conf, drivers, phase, SCHEME_TO_CLS_MAP, store_count, load_order,
                   metaVars, idxVars>>

NoTenants == <<"<None>">>

SetAcls ==
    /\ phase = "ready"
    /\ \E uri \in URIs \cup stored, public \in BOOLEAN, read_tenants \in {<<>>},
          write_tenants \in {NoTenants, <<"t">>} :
         \E drv \in StoreOutcomes(uri, <<>>) :
           last' = Call("set_acls", uri, <<>>,
                        <<public, read_tenants,
                          IF write_tenants = NoTenants THEN <<>> ELSE write_tenants>>,
                        drv, set_acls(SCHEME_TO_CLS_MAP, uri, drv))
    /\ UNCHANGED <<conf, drivers, phase, SCHEME_TO_CLS_MAP, store_count, load_order,
                   stored, metaVars, idxVars>>

\* the metadata a store's add returns in the dispatcher runs
AddMetas == {PyNone, Dict(<<"k">>, <<Leaf("unicode")>>), Dict(<<"k">>, <<Leaf("int")>>)}

\* what a store's add may do: return (location, size, checksum, metadata),
\* or raise
AddOutcomes(scheme, image_id, metas) ==
    {Drv("none", <<scheme \o <<":", "/">> \o image_id, Len(image_id), "checksum", m>>) :
        m \in metas}
    \cup {Drv("NotImplementedError", <<>>), Drv("BackendFailure", <<>>)}

Add ==
    /\ phase = "ready"
    /\ \E scheme \in Schemes \cup {NoScheme}, image_id \in ImageIds :
         \E drv \in AddOutcomes(IF scheme = NoScheme THEN conf.default_store ELSE scheme,
                                image_id, AddMetas) :
           LET r == add_to_backend(conf, SCHEME_TO_CLS_MAP, scheme, drv)
           IN /\ last' = Call("add", <<>>, scheme, <<>>, drv, r)
              /\ stored' = IF r.called /\ drv.raised = "none"
                           THEN stored \cup {drv.value[1]} ELSE stored
    /\ UNCHANGED <<conf, drivers, phase, SCHEME_TO_CLS_MAP, store_count, load_order,
                   metaVars, idxVars>>

Next ==
    \/ CreateStores
    \/ Lookup
    \/ Add
    \/ Get
    \/ GetSize
    \/ Delete
    \/ SafeDelete
    \/ SetAcls

Spec == Init /\ [][Next]_vars

-----------------------------------------------------------------------------
(* Loading alone, over every configuration of the drivers *)

LoadSchemes == {file, http}

InitLoad ==
    /\ \E stores \in SUBSET StoreEntries :
         conf = [stores |-> stores, default_store |-> file]
    /\ drivers \in [StoreEntries -> [inst : InstOutcomes, schemes : SUBSET LoadSchemes]]
    /\ phase = "init"
    /\ SCHEME_TO_CLS_MAP = EmptyMap
    /\ store_count = 0
    /\ load_order = <<>>
    /\ stored = {}
    /\ last = NoCall
    /\ MetaIdle
    /\ IdxIdle

NextLoad == CreateStores

SpecLoad == InitLoad /\ [][NextLoad]_vars

-----------------------------------------------------------------------------
(* The validator and store_add_to_backend, over every metadata value *)

InitMeta == RegIdle /\ MetaIdle /\ IdxIdle

CheckLocationMetadata ==
    /\ \E val \in MetaVals :
         LET r == check_location_metadata(val, <<>>)
         IN meta_call' = [op |-> "validate", val |-> val, drv |-> "none",
                          raised |-> r.raised, key |-> r.key, type |-> r.type,
                          ret |-> <<>>, log |-> <<>>]
    /\ UNCHANGED <<regVars, idxVars>>

StoreAddToBackend ==
    /\ \E image_id \in ImageIds : \E drv \in AddOutcomes(file, image_id, MetaVals) :
         LET r == store_add_to_backend("file", drv)
         IN meta_call' = [op |-> "add",
                          val |-> IF drv.raised = "none" THEN drv.value[4] ELSE PyNone,
                          drv |-> drv.raised, raised |-> r.raised, key |-> <<>>,
                          type |-> "", ret |-> r.ret, log |-> r.log]
    /\ UNCHANGED <<regVars, idxVars>>

NextMeta == CheckLocationMetadata \/ StoreAddToBackend

SpecMeta == InitMeta /\ [][NextMeta]_vars

-----------------------------------------------------------------------------
(* Indexable over every source *)

InitIdx ==
    /\ RegIdle
    /\ MetaIdle
    /\ \E lens \in ChunkLens, declared \in BOOLEAN, has_len \in BOOLEAN :
         /\ wrapped = ChunksOf(lens)
         /\ size = Indexable_init(IF declared THEN SumTo(lens, Len(lens)) ELSE 0,
                                  has_len, SumTo(lens, Len(lens)))
    /\ cursor = 0
    /\ chunk = NoChunk
    /\ produced = <<>>
    /\ iterated = FALSE
    /\ forward = [ok |-> TRUE, hi |-> 0]
    /\ idx_call = NoIdxCall

Self == [wrapped |-> wrapped, cursor |-> cursor, chunk |-> chunk]

IdxStep(op, start, r) ==
    /\ wrapped' = r.wrapped
    /\ cursor' = r.cursor
    /\ chunk' = r.chunk
    /\ produced' = produced \o r.yielded
    /\ idx_call' = [op |-> op, start |-> start, raised |-> r.raised, ret |-> r.ret,
                    fetched |-> r.fetched, yielded |-> r.yielded,
                    pre_cursor |-> cursor, pre_chunk |-> chunk]

GetItem ==
    /\ \E start \in 0..MaxOffset :
         /\ IdxStep("getitem", start, getitem(Self, start))
         /\ forward' = [ok |-> forward.ok /\ start >= forward.hi, hi |-> start]
    /\ UNCHANGED <<regVars, metaVars, size, iterated>>

IterNext ==
    /\ IdxStep("iter", 0, iter_next(Self))
    /\ iterated' = (iterated \/ iter_next(Self).raised = "none")
    /\ UNCHANGED <<regVars, metaVars, size, forward>>

NextIdx == GetItem \/ IterNext

SpecIdx == InitIdx /\ [][NextIdx]_vars

-----------------------------------------------------------------------------
(* Properties *)

\* the scheme of a URI of the form <scheme>:<remainder>
UriScheme(uri) == PySlice(uri, 0, find(uri, ":"))

Registered(uri) == UriScheme(uri) \in DOMAIN SCHEME_TO_CLS_MAP

\* C1: safe_delete never raises, whatever the registry, the URI and the
\* store do: every failure of the delete is caught and logged.
C1_SafeDeleteNeverRaises ==
    last.op = "safe_delete" => last.raised = "none"

\* a value made of dicts, lists and unicode leaves only
RECURSIVE WellFormed(_)
WellFormed(val) ==
    \/ val.t = "unicode"
    \/ /\ val.t \in {"dict", "list"}
       /\ \A i \in 1..Len(val.items) : WellFormed(val.items[i])

ValidMetadata(m) == m = PyNone \/ (m.t = "dict" /\ WellFormed(m))

\* C2: when the store's add returned, add returns that result, metadata
\* untouched, if and only if the metadata is None or a dict made of dicts,
\* lists and unicode leaves only; otherwise it raises BackendException and
\* returns nothing.
C2_AddGatedByMetadata ==
    (meta_call.op = "add" /\ meta_call.drv = "none") =>
        /\ meta_call.raised = "none" <=> ValidMetadata(meta_call.val)
        /\ meta_call.raised = "none" =>
             (Len(meta_call.ret) = 4 /\ meta_call.ret[4] = meta_call.val)
        /\ meta_call.raised # "none" =>
             (meta_call.raised = "BackendException" /\ meta_call.ret = <<>>)

\* add rejected a dict for a leaf below its top level
C2_Witness ==
    /\ meta_call.op = "add"
    /\ meta_call.drv = "none"
    /\ meta_call.raised = "BackendException"
    /\ meta_call.val.t = "dict"
    /\ \E i \in 1..Len(meta_call.val.items) : meta_call.val.items[i].t = "list"

\* the path from the root to the first leaf that is not unicode: every
\* enclosing key and index, in order
RECURSIVE FullPath(_, _)
FullPath(val, path) ==
    IF val.t \in {"dict", "list"}
    THEN LET i == CHOOSE i \in 1..Len(val.items) :
                      /\ ~WellFormed(val.items[i])
                      /\ \A j \in 1..(i - 1) : WellFormed(val.items[j])
         IN FullPath(val.items[i],
                Append(path, IF val.t = "dict" THEN val.keys[i] ELSE IndexToken(i - 1)))
    ELSE path

\* C3: the path validate reports is the full path from the root to the
\* offending leaf: the key of every enclosing mapping and the [index] of
\* every enclosing sequence.
C3_FullPathReported ==
    (meta_call.op = "validate" /\ meta_call.raised # "none") =>
        meta_call.key = FullPath(meta_call.val, <<>>)

\* C4: once create_stores has returned, no dispatcher operation changes the
\* registry: lookup of a scheme gives the same result before and after every
\* step, a registered scheme gives the store instance create_stores made for
\* a driver that reports it, and an unregistered one raises UnknownScheme.
C4_LookupStable ==
    [][phase = "ready" =>
        /\ phase' = "ready"
        /\ get_known_schemes(SCHEME_TO_CLS_MAP') = get_known_schemes(SCHEME_TO_CLS_MAP)
        /\ \A s \in Schemes :
             LET before == get_store_from_scheme(SCHEME_TO_CLS_MAP, s)
                 after == get_store_from_scheme(SCHEME_TO_CLS_MAP', s)
             IN /\ after = before
                /\ s \notin get_known_schemes(SCHEME_TO_CLS_MAP) =>
                     after.raised = "UnknownScheme"
                /\ s \in get_known_schemes(SCHEME_TO_CLS_MAP) =>
                     /\ after.raised = "none"
                     /\ after.store \in conf.stores
                     /\ drivers[after.store].inst = "ok"
                     /\ s \in drivers[after.store].schemes
        /\ last'.op = "lookup" =>
             /\ last'.raised = get_store_from_scheme(SCHEME_TO_CLS_MAP, last'.scheme).raised
             /\ last'.store = get_store_from_scheme(SCHEME_TO_CLS_MAP, last'.scheme).store
    ]_vars

\* a lookup that found a store, after an add changed what the backends hold
C4_Witness ==
    /\ phase = "ready"
    /\ last.op = "lookup"
    /\ last.raised = "none"
    /\ last.store # NoStore
    /\ stored # {}

\* C5: get, get_size and delete route every URI <scheme>:<remainder> whose
\* scheme is registered to the store registered for that scheme, and never
\* fail with UnknownScheme, whatever the remainder.
C5_RegisteredUriRouted ==
    (last.op \in {"get", "get_size", "delete"} /\ Registered(last.uri)) =>
        /\ last.raised # "UnknownScheme"
        /\ last.store = SCHEME_TO_CLS_MAP[UriScheme(last.uri)].store

Unsupported(op) ==
    IF op = "add" THEN "StoreAddNotSupported"
    ELSE IF op = "get" THEN "StoreGetNotSupported"
    ELSE "StoreDeleteNotSupported"

\* C6: for add, get and delete, a store method that raises
\* NotImplementedError makes the dispatcher raise the NotSupported exception
\* of that operation; any other exception of the store reaches the caller
\* unchanged, and NotSupported is raised for nothing else.
C6_UnsupportedMapped ==
    (last.op \in {"add", "get", "delete"} /\ last.called) =>
        /\ last.drv = "NotImplementedError" => last.raised = Unsupported(last.op)
        /\ last.drv \notin {"none", "NotImplementedError"} => last.raised = last.drv
        /\ last.raised \in {"StoreAddNotSupported", "StoreGetNotSupported",
                            "StoreDeleteNotSupported"} =>
             (last.drv = "NotImplementedError" /\ last.raised = Unsupported(last.op))

\* get on a stored object of a store that does not implement get
C6_Witness ==
    /\ last.op = "get"
    /\ last.called
    /\ last.uri \in stored
    /\ last.drv = "NotImplementedError"
    /\ last.raised = "StoreGetNotSupported"

\* C7: set_acls on a registered URI whose store's set_acls raises
\* NotImplementedError returns normally, logs at debug level, and changes
\* neither the registry nor the stored objects.
C7_SetAclsNoOp ==
    [][(/\ last'.op = "set_acls"
        /\ Registered(last'.uri)
        /\ last'.drv = "NotImplementedError") =>
           /\ last'.raised = "none"
           /\ last'.called
           /\ last'.log = <<"debug">>
           /\ SCHEME_TO_CLS_MAP' = SCHEME_TO_CLS_MAP
           /\ stored' = stored
    ]_vars

\* set_acls with write_tenants given, on a store without ACLs that holds an
\* object
C7_Witness ==
    /\ last.op = "set_acls"
    /\ last.drv = "NotImplementedError"
    /\ last.called
    /\ last.raised = "none"
    /\ last.args[3] = <<"t">>
    /\ stored # {}

\* C8: iteration yields the source's chunks in order, each becoming the
\* cached chunk with the cursor advanced by its length; so right after
\* iteration yielded the first chunk, index 0 returns that chunk without
\* producing another, and an index past its end produces and returns the
\* second chunk.
C8_IterateThenIndex ==
    /\ (idx_call.op = "iter" /\ idx_call.raised = "none") =>
         /\ idx_call.ret = produced[Len(produced)]
         /\ chunk = SomeChunk(idx_call.ret)
         /\ cursor = idx_call.pre_cursor + Len(idx_call.ret)
    /\ (/\ idx_call.op = "getitem"
        /\ iterated
        /\ Len(produced) - Len(idx_call.yielded) = 1
        /\ produced[1] # <<>>) =>
         /\ idx_call.start = 0 =>
              (idx_call.ret = produced[1] /\ ~idx_call.fetched)
         /\ (idx_call.start >= Len(produced[1]) /\ Len(produced) = 2) =>
              (idx_call.ret = produced[2] /\ idx_call.fetched)

\* the drivers of conf.stores that instantiated
Instantiated == {d \in conf.stores : drivers[d].inst = "ok"}

\* the driver that registered s last
LastReporting(s) ==
    LET at == {i \in 1..Len(load_order) :
                  load_order[i] \in Instantiated /\ s \in drivers[load_order[i]].schemes}
    IN load_order[CHOOSE i \in at : \A j \in at : j <= i]

\* what C9 states apart from who owns a scheme: the fatal case, the count,
\* and that a driver that failed to instantiate registers nothing
LoadOutcome ==
    /\ phase = "fatal" <=> \E d \in Instantiated : drivers[d].schemes = {}
    /\ phase = "ready" => store_count = Cardinality(Instantiated)
    /\ \A s \in DOMAIN SCHEME_TO_CLS_MAP :
         /\ SCHEME_TO_CLS_MAP[s].store \in Instantiated
         /\ s \in drivers[SCHEME_TO_CLS_MAP[s].store].schemes

C10_IndexedAccess ==
    (idx_call.op = "getitem" /\ ~iterated) =>
        LET o == idx_call.start
            c == idx_call.pre_cursor
            old == idx_call.pre_chunk.data
        IN /\ idx_call.raised = "none"
           /\ (c - Len(old) <= o /\ o < c) =>
                /\ idx_call.ret = SubSeq(old, o - (c - Len(old)) + 1, Len(old))
                /\ ~idx_call.fetched
                /\ idx_call.yielded = <<>>
                /\ cursor = c
           /\ o >= c =>
                /\ idx_call.fetched
                /\ Len(idx_call.yielded) <= 1
                /\ idx_call.yielded # <<>> => idx_call.ret = idx_call.yielded[1]
                /\ idx_call.yielded = <<>> => (idx_call.ret = <<>> /\ wrapped = <<>>)
                /\ chunk = SomeChunk(idx_call.ret)
                /\ cursor = c + Len(idx_call.ret)
           /\ cursor = Len(Flatten(produced))
           /\ cursor >= c
           /\ forward.ok =>
                LET from == IF o < c THEN o ELSE c
                IN idx_call.ret = [i \in 1..(cursor - from) |-> from + i - 1]

\* a forward request strictly inside the second chunk, served from the cache
C10_Witness ==
    /\ idx_call.op = "getitem"
    /\ ~iterated
    /\ forward.ok
    /\ ~idx_call.fetched
    /\ Len(produced) = 2
    /\ idx_call.start > idx_call.pre_cursor - Len(idx_call.pre_chunk.data)
    /\ idx_call.ret # <<>>

====
